---------------------------- MODULE Spec2Model ----------------------------
(***************************************************************************)
(* A model of src/azure_openai_client.py: the AzureOpenAIClient wrapper     *)
(* (construction from a secrets mapping or from the environment, chat,      *)
(* chat_with_template, get_langchain) together with the parts of the        *)
(* libraries it calls that decide what is sent: dict.get / os.getenv,       *)
(* the f-string prompt template of langchain (string.Formatter), the       *)
(* token provider callback and str.strip.                                   *)
(*                                                                          *)
(* Python strings whose characters matter (templates, messages, completion  *)
(* bodies, variable names and values) are sequences of one-character        *)
(* strings; configuration values are opaque strings.                        *)
(***************************************************************************)
EXTENDS Naturals, Sequences, FiniteSets, TLC

\* ------------------------------------------------------------------ bounds
MaxLen == 4          \* longest template / message, in characters
MaxBody == 3         \* longest completion body, in characters
MaxMutations == 1    \* changes the caller makes to the mapping it passed in
MaxTokens == 2       \* bearer tokens the credential mints after the first
NumCallers == 2      \* simultaneous callers of one client

\* ----------------------------------------------------------- python values
\* Python's None; Absent marks a key that a dict does not hold.
\* Every Python string is a sequence: a string whose characters matter is the
\* sequence of its characters, an opaque configuration value is one symbol.
\* None and a key a dict does not hold are sequences too, of one marker that is
\* no character, so that any two values can be compared.
None == <<"<None>">>
Absent == <<"<absent>">>

\* Python's truth value of an optional string (if x: / not x).
Truthy(x) == x # None /\ x # <<>>

\* All sequences over S of length at most n.
SeqsUpTo(S, n) == UNION {[1..k -> S] : k \in 0..n}

\* ------------------------------------------------------------- str.strip()
\* The characters str.strip() removes when called without an argument.
Whitespace == {" ", "\t", "\n", "\r", "\f"}

RECURSIVE LStrip(_)
LStrip(s) ==
    IF s # <<>> /\ Head(s) \in Whitespace THEN LStrip(Tail(s)) ELSE s

RECURSIVE RStrip(_)
RStrip(s) ==
    IF s # <<>> /\ s[Len(s)] \in Whitespace
    THEN RStrip(SubSeq(s, 1, Len(s) - 1))
    ELSE s

\* A variant that strips the left end only.
StripLeftOnly(s) == LStrip(s)

\* response.content.strip()
Strip(s) == RStrip(LStrip(s))

\* ------------------------------------------- f-string prompt templates
\* HumanMessagePromptTemplate.from_template(t) parses t with
\* string.Formatter().parse; the parser below follows CPython's
\* MarkupIterator_next / parse_field for templates without ':', '!', '['.
ParseError(msg) == [ok |-> FALSE, toks |-> <<>>, err |-> msg]
ParseOk(toks) == [ok |-> TRUE, toks |-> toks, err |-> ""]
\* A literal that keeps an escaped brace doubled.
LitDoubled(c) == [t |-> "lit", v |-> IF c \in {"{", "}"} THEN <<c, c>> ELSE <<c>>]
\* One character of literal text; an escaped brace ({{ or }}) is one brace.
Lit(c) == [t |-> "lit", v |-> <<c>>]
Field(name) == [t |-> "field", v |-> name]
Cons(tok, r) == IF r.ok THEN ParseOk(<<tok>> \o r.toks) ELSE r

\* The first position k >= j of s holding a brace, or 0 when there is none.
RECURSIVE NextBrace(_, _)
NextBrace(s, j) ==
    IF j > Len(s) THEN 0
    ELSE IF s[j] \in {"{", "}"} THEN j
    ELSE NextBrace(s, j + 1)

RECURSIVE ParseFrom(_, _)
ParseFrom(s, i) ==
    IF i > Len(s) THEN ParseOk(<<>>)
    ELSE IF s[i] = "}" THEN
        IF i < Len(s) /\ s[i + 1] = "}"
        THEN Cons(Lit("}"), ParseFrom(s, i + 2))
        ELSE ParseError("Single '}' encountered in format string")
    ELSE IF s[i] = "{" THEN
        IF i = Len(s)
        THEN ParseError("Single '{' encountered in format string")
        ELSE IF s[i + 1] = "{"
        THEN Cons(Lit("{"), ParseFrom(s, i + 2))
        ELSE LET k == NextBrace(s, i + 1) IN
             IF k = 0 THEN ParseError("expected '}' before end of string")
             ELSE IF s[k] = "{" THEN ParseError("unexpected '{' in field name")
             ELSE Cons(Field(SubSeq(s, i + 1, k - 1)), ParseFrom(s, k + 1))
    ELSE Cons(Lit(s[i]), ParseFrom(s, i + 1))

Parse(s) == ParseFrom(s, 1)

\* get_template_variables: the field names of the template.
InputVariables(toks) == {toks[i].v : i \in {j \in 1..Len(toks) : toks[j].t = "field"}}

\* formatter.format(template, **variables): literals kept, fields replaced.
RECURSIVE Render(_, _)
Render(toks, variables) ==
    IF toks = <<>> THEN <<>>
    ELSE (IF Head(toks).t = "field" THEN variables[Head(toks).v] ELSE Head(toks).v)
         \o Render(Tail(toks), variables)


\* ------------------------------------------------ the secrets mapping
required_keys ==
    <<"azure_tenant_id", "azure_client_id", "azure_client_secret", "azure_endpoint">>
optional_keys == {"azure_deployment_name", "azure_api_version"}
RequiredSet == {required_keys[i] : i \in 1..Len(required_keys)}
AllKeys == RequiredSet \cup optional_keys

DefaultDeployment == <<"gpt-4">>
DefaultApiVersion == <<"2024-02-15-preview">>
Scope == "https://cognitiveservices.azure.com/.default"
Temperature == "0.1"
MaxOutputTokens == 4000

\* secrets.get(key): None for a key the dict does not hold.
DictGet(d, k) == IF d[k] = Absent THEN None ELSE d[k]

\* A lookup that also replaces an empty value by the default.
DictGetOrDefault(d, k, dflt) == IF Truthy(DictGet(d, k)) THEN d[k] ELSE dflt

\* secrets.get(key, default) and os.getenv(name, default).
DictGetDefault(d, k, dflt) == IF d[k] = Absent THEN dflt ELSE d[k]

\* A validation that reports the first missing key only.
FirstMissingKey(secrets) ==
    LET all == SelectSeq(required_keys, LAMBDA k : ~Truthy(DictGet(secrets, k)))
    IN  IF all = <<>> THEN <<>> ELSE <<Head(all)>>

\* _validate_secrets: the required keys whose value is absent, None or empty.
MissingKeys(secrets) ==
    SelectSeq(required_keys, LAMBDA k : ~Truthy(DictGet(secrets, k)))

NoCredential == [built |-> FALSE, tenant_id |-> None, client_id |-> None,
                 client_secret |-> None]
NoLlm == [built |-> FALSE, azure_endpoint |-> None, azure_deployment |-> None,
          api_version |-> None, temperature |-> "", max_tokens |-> 0]
NoError == [type |-> "none", missing |-> <<>>]

\* _setup_azure_credentials: ClientSecretCredential(...)
SetupCredential(secrets) ==
    [built |-> TRUE, tenant_id |-> secrets["azure_tenant_id"],
     client_id |-> secrets["azure_client_id"],
     client_secret |-> secrets["azure_client_secret"]]

\* _initialize_langchain_client: AzureChatOpenAI(...)
InitializeLlm(secrets) ==
    [built |-> TRUE, azure_endpoint |-> secrets["azure_endpoint"],
     azure_deployment |->
         DictGetDefault(secrets, "azure_deployment_name", DefaultDeployment),
     api_version |-> DictGetDefault(secrets, "azure_api_version", DefaultApiVersion),
     temperature |-> Temperature, max_tokens |-> MaxOutputTokens]

\* __init__: validate, then build the credential, then the chat client.
Construct(secrets) ==
    LET missing == MissingKeys(secrets) IN
    IF missing # <<>>
    THEN [ok |-> FALSE, error |-> [type |-> "ValueError", missing |-> missing],
          credential |-> NoCredential, llm |-> NoLlm]
    ELSE [ok |-> TRUE, error |-> NoError,
          credential |-> SetupCredential(secrets), llm |-> InitializeLlm(secrets)]

\* create_client_from_env: the dict built from the process environment, where
\* env[name] is Absent for a variable that is not set.
EnvName(k) ==
    CASE k = "azure_tenant_id" -> "AZURE_TENANT_ID"
      [] k = "azure_client_id" -> "AZURE_CLIENT_ID"
      [] k = "azure_client_secret" -> "AZURE_CLIENT_SECRET"
      [] k = "azure_endpoint" -> "AZURE_ENDPOINT"
      [] k = "azure_deployment_name" -> "AZURE_DEPLOYMENT_NAME"
      [] k = "azure_api_version" -> "AZURE_API_VERSION"
EnvNames == {EnvName(k) : k \in AllKeys}

SecretsFromEnv(env) ==
    [k \in AllKeys |->
        CASE k = "azure_deployment_name" ->
                 DictGetDefault(env, EnvName(k), DefaultDeployment)
          [] k = "azure_api_version" ->
                 DictGetDefault(env, EnvName(k), DefaultApiVersion)
          [] OTHER -> DictGet(env, EnvName(k))]

\* ------------------------------------------------------------------ state
VARIABLES
    phase,        \* "new": no client yet; "ready": constructed; "failed": __init__ raised
    callerDict,   \* contents of the dict object the caller passed to the constructor
    ownDict,      \* contents of the dict object create_client_from_env built
    secretsRef,   \* which object self.secrets refers to: "none", "caller", "own"
    given,        \* the constructor's input: how it was called and with what
    validated,    \* the contents of self.secrets when _validate_secrets accepted it
    mutations,    \* changes the caller has made to its dict since construction
    credential,   \* self.credential
    llm,          \* self.llm
    ctorError,    \* the exception __init__ raised
    credState,    \* the credential library's own token cache
    lastToken,    \* the token the token provider returned last (0: none yet)
    call,         \* the last chat / chat_with_template call and what it did
    prevFailed,   \* whether the call before the last one raised
    ret,          \* what the last operation returned to its caller
    pending,      \* the call the caller is about to make (none: chosen when made)
    thr,          \* per simultaneous caller: position in chat and its locals
    lastWriter    \* the caller that last built a message list

clientVars == <<phase, callerDict, ownDict, secretsRef, given, validated, mutations,
                credential, llm, ctorError>>
callVars == <<credState, lastToken, call, prevFailed, ret>>
concVars == <<thr, lastWriter>>
vars == <<clientVars, callVars, pending, concVars>>

NoDict == [k \in AllKeys |-> Absent]
NoGiven == [via |-> "none", input |-> NoDict]
NoRet == [kind |-> "none", text |-> <<>>, handle |-> NoLlm]

\* self.secrets: a reference to the caller's dict (self.secrets = secrets) or to
\* the dict create_client_from_env built.
SelfSecrets == IF secretsRef = "caller" THEN callerDict ELSE ownDict

\* ------------------------------------------------------ the token provider
\* ClientSecretCredential.get_token(scope): the library returns its cached token
\* while that is valid and mints a new one otherwise; authOk is whether the
\* identity provider accepts the client credentials.
GetToken(cs, scope, authOk) ==
    IF ~authOk THEN [ok |-> FALSE, token |-> 0, cs |-> cs]
    ELSE IF cs.valid THEN [ok |-> TRUE, token |-> cs.current, cs |-> cs]
    ELSE [ok |-> TRUE, token |-> cs.current + 1,
          cs |-> [current |-> cs.current + 1, valid |-> TRUE]]

\* A token provider that reuses the token it returned last.
TokenProviderCached(cs, authOk) ==
    IF lastToken # 0
    THEN [ok |-> TRUE, token |-> lastToken, fetches |-> <<>>, cs |-> cs]
    ELSE LET r == GetToken(cs, Scope, authOk)
         IN  [ok |-> r.ok, token |-> r.token, fetches |-> <<Scope>>, cs |-> r.cs]

\* lambda: self.credential.get_token("https://.../.default").token
TokenProvider(cs, authOk) ==
    LET r == GetToken(cs, Scope, authOk)
    IN  [ok |-> r.ok, token |-> r.token, fetches |-> <<Scope>>, cs |-> r.cs]

\* ------------------------------------------------------- request shaping
SystemMessage(content) == [kind |-> "SystemMessage", content |-> content]
HumanMessagePromptTemplate(template) ==
    [kind |-> "HumanMessagePromptTemplate", content |-> template]

\* A message list that starts from the messages the last call built.
LeftoverMessages == call.messages

\* messages = []
NewMessages == <<>>

\* The message list of chat and of chat_with_template: the system message when
\* system_message is truthy, then the human message template.
BuildMessages(text, system_message) ==
    Append(IF Truthy(system_message)
           THEN Append(NewMessages, SystemMessage(system_message))
           ELSE NewMessages,
           HumanMessagePromptTemplate(text))

HumanIndexes(messages) ==
    {i \in 1..Len(messages) : messages[i].kind = "HumanMessagePromptTemplate"}

\* The variables a formatted prompt needs: those of its human templates.
PromptVariables(messages) ==
    UNION {InputVariables(Parse(messages[i].content).toks) : i \in HumanIndexes(messages)}

\* A prompt that formats without checking that every variable is supplied: a
\* field without a value is left as it is written.
RECURSIVE RenderPartial(_, _)
RenderPartial(toks, variables) ==
    IF toks = <<>> THEN <<>>
    ELSE (IF Head(toks).t = "field"
          THEN (IF Head(toks).v \in DOMAIN variables
                THEN variables[Head(toks).v]
                ELSE <<"{">> \o Head(toks).v \o <<"}">>)
          ELSE Head(toks).v)
         \o RenderPartial(Tail(toks), variables)

FormatPromptUnchecked(messages, variables) ==
    IF \E i \in HumanIndexes(messages) : ~Parse(messages[i].content).ok
    THEN [outcome |-> "ValueError", messages |-> <<>>]
    ELSE [outcome |-> "ok",
          messages |->
            [i \in 1..Len(messages) |->
                IF messages[i].kind = "SystemMessage"
                THEN [role |-> "system", content |-> messages[i].content]
                ELSE [role |-> "user",
                      content |-> RenderPartial(Parse(messages[i].content).toks,
                                                variables)]]]

\* from_template on each human message, ChatPromptTemplate.from_messages and the
\* prompt's invoke(variables): a malformed template raises ValueError, a
\* variable without a value raises KeyError, otherwise every message is
\* formatted (a SystemMessage is passed on as it is).
FormatPrompt(messages, variables) ==
    IF \E i \in HumanIndexes(messages) : ~Parse(messages[i].content).ok
    THEN [outcome |-> "ValueError", messages |-> <<>>]
    ELSE IF PromptVariables(messages) \ DOMAIN variables # {}
    THEN [outcome |-> "KeyError", messages |-> <<>>]
    ELSE [outcome |-> "ok",
          messages |->
            [i \in 1..Len(messages) |->
                IF messages[i].kind = "SystemMessage"
                THEN [role |-> "system", content |-> messages[i].content]
                ELSE [role |-> "user",
                      content |-> Render(Parse(messages[i].content).toks,
                                         variables)]]]

\* The chat-completion request AzureChatOpenAI sends for a formatted prompt.
MakeRequest(handle, messages, token) ==
    [azure_endpoint |-> handle.azure_endpoint,
     azure_deployment |-> handle.azure_deployment,
     api_version |-> handle.api_version,
     temperature |-> handle.temperature,
     max_tokens |-> handle.max_tokens,
     token |-> token,
     messages |-> messages]

\* chain.invoke(variables) followed by response.content.strip(): the prompt is
\* formatted, the model's client asks the token provider for a token, sends the
\* request and returns the body; any exception propagates to the caller.
RunChain(messages, variables, net, cs) ==
    LET p == FormatPrompt(messages, variables)
        t == TokenProvider(cs, net.auth)
        none == [outcome |-> p.outcome, sent |-> <<>>, providerCalls |-> 0,
                 fetches |-> <<>>, token |-> 0, cs |-> cs, body |-> <<>>,
                 text |-> <<>>]
    IN  IF p.outcome # "ok" THEN none
        ELSE IF ~t.ok
        THEN [none EXCEPT !.outcome = "AuthError", !.providerCalls = 1,
                          !.fetches = t.fetches, !.cs = t.cs]
        ELSE IF ~net.transport
        THEN [none EXCEPT !.outcome = "TransportError", !.providerCalls = 1,
                          !.fetches = t.fetches, !.cs = t.cs, !.token = t.token,
                          !.sent = <<MakeRequest(llm, p.messages, t.token)>>]
        ELSE [outcome |-> "ok", sent |-> <<MakeRequest(llm, p.messages, t.token)>>,
              providerCalls |-> 1, fetches |-> t.fetches, token |-> t.token,
              cs |-> t.cs, body |-> net.body, text |-> Strip(net.body)]

\* -------------------------------------------------------- input domains
Chars == {"{", "}", "n", "H"}
Templates == SeqsUpTo(Chars, MaxLen)
Names == {<<"n">>, <<"H">>}
Values == {<<"A">>, <<"{">>}
VarMaps == UNION {[D -> Values] : D \in SUBSET Names}
SysDomain == {None, <<>>, <<"S">>, <<"{", "n", "}">>}
BodyChars == {" ", "\n", "H"}
Bodies == SeqsUpTo(BodyChars, MaxBody)

\* What the identity provider and the model endpoint do during one call.
Net(auth, transport, body) == [auth |-> auth, transport |-> transport, body |-> body]
NetFew == {Net(FALSE, TRUE, <<>>), Net(TRUE, FALSE, <<>>),
           Net(TRUE, TRUE, <<" ", "H", "\n">>)}
NetAll == {Net(TRUE, TRUE, b) : b \in Bodies}

TemplatesFew == {<<"H">>, <<"H", "{", "n", "}">>, <<"}">>}
VarMapsFew == {<<>>, [x \in {<<"n">>} |-> <<"A">>]}
SysFew == {None, <<"S">>}

RequiredValues == {Absent, None, <<>>, <<"v">>}
OptionalValues == {Absent, <<>>, <<"custom">>}
SecretsDomain ==
    {[k \in AllKeys |-> IF k \in RequiredSet THEN r[k] ELSE o[k]] :
        r \in [RequiredSet -> RequiredValues], o \in [optional_keys -> OptionalValues]}
\* os.environ: a variable is not set (Absent), set to the empty string, or set.
EnvDomain ==
    {[n \in EnvNames |->
        IF n \in {EnvName(k) : k \in RequiredSet} THEN r[n] ELSE o[n]] :
        r \in [{EnvName(k) : k \in RequiredSet} -> {Absent, <<>>, <<"v">>}],
        o \in [{EnvName(k) : k \in optional_keys} -> OptionalValues]}

NoCall == [op |-> "none", text |-> <<>>, variables |-> <<>>, system_message |-> None,
           messages |-> <<>>, outcome |-> "none", sent |-> <<>>, providerCalls |-> 0,
           fetches |-> <<>>, token |-> 0, body |-> <<>>]
NoPending == [op |-> "none", text |-> <<>>, variables |-> <<>>,
              system_message |-> None, net |-> Net(TRUE, TRUE, <<>>)]
NoThread == [pc |-> "idle", op |-> "none", text |-> <<>>, variables |-> <<>>,
             system_message |-> None, messages |-> <<>>, prompt |-> <<>>,
             sent |-> <<>>, reply |-> <<>>, outcome |-> "none", text_out |-> <<>>]
Callers == 1..NumCallers

\* ------------------------------------------------------------ construction
Init ==
    /\ phase = "new"
    /\ callerDict = NoDict
    /\ ownDict = NoDict
    /\ secretsRef = "none"
    /\ given = NoGiven
    /\ validated = NoDict
    /\ mutations = 0
    /\ credential = NoCredential
    /\ llm = NoLlm
    /\ ctorError = NoError
    /\ credState = [current |-> 0, valid |-> FALSE]
    /\ lastToken = 0
    /\ call = NoCall
    /\ prevFailed = FALSE
    /\ ret = NoRet
    /\ pending = NoPending
    /\ thr = [c \in Callers |-> NoThread]
    /\ lastWriter = 0

\* AzureOpenAIClient(secrets) on the dict object it now refers to.
InitClient ==
    LET r == Construct(SelfSecrets') IN
    /\ validated' = IF r.ok THEN SelfSecrets' ELSE NoDict
    /\ credential' = r.credential
    /\ llm' = r.llm
    /\ ctorError' = r.error
    /\ phase' = IF r.ok THEN "ready" ELSE "failed"
    /\ mutations' = 0

\* create_client_from_dict(secrets) / AzureOpenAIClient(secrets)
CreateClientFromDict(secrets) ==
    /\ phase = "new"
    /\ callerDict' = secrets
    /\ secretsRef' = "caller"
    /\ given' = [via |-> "dict", input |-> secrets]
    /\ InitClient
    /\ UNCHANGED <<ownDict, callVars, pending, concVars>>

\* create_client_from_env() with the process environment env
CreateClientFromEnv(env) ==
    /\ phase = "new"
    /\ ownDict' = SecretsFromEnv(env)
    /\ secretsRef' = "own"
    /\ given' = [via |-> "env", input |-> env]
    /\ InitClient
    /\ UNCHANGED <<callerDict, callVars, pending, concVars>>

\* The caller changes, adds or deletes a key of the dict it passed in.
CallerChangesMapping(k, v) ==
    /\ phase = "ready"
    /\ secretsRef = "caller"
    /\ mutations < MaxMutations
    /\ v # callerDict[k]
    /\ callerDict' = [callerDict EXCEPT ![k] = v]
    /\ mutations' = mutations + 1
    /\ UNCHANGED <<phase, ownDict, secretsRef, given, validated, credential, llm,
                   ctorError, callVars, pending, concVars>>

\* get_langchain()
GetLangchain ==
    /\ phase = "ready"
    /\ ret' = [kind |-> "llm", text |-> <<>>, handle |-> llm]
    /\ UNCHANGED <<clientVars, credState, lastToken, call, prevFailed, pending,
                   concVars>>

\* The credential's cached token reaches the end of its life.
TokenExpires ==
    /\ phase = "ready"
    /\ credState.valid
    /\ credState.current <= MaxTokens
    /\ credState' = [credState EXCEPT !.valid = FALSE]
    /\ UNCHANGED <<clientVars, lastToken, call, prevFailed, ret, pending, concVars>>

\* ------------------------------------------------------------------- calls
\* The body of chat and of chat_with_template, which differ in what is passed
\* to chain.invoke: {} or variables.
DoCall(op, text, variables, system_message, net) ==
    /\ phase = "ready"
    /\ \E messages \in {BuildMessages(text, system_message)} :
       \E r \in {RunChain(messages, variables, net, credState)} :
          /\ call' = [op |-> op, text |-> text, variables |-> variables,
                      system_message |-> system_message, messages |-> messages,
                      outcome |-> r.outcome, sent |-> r.sent,
                      providerCalls |-> r.providerCalls, fetches |-> r.fetches,
                      token |-> r.token, body |-> r.body]
          /\ credState' = r.cs
          /\ lastToken' = IF r.token # 0 THEN r.token ELSE lastToken
          /\ prevFailed' = (call.outcome \notin {"none", "ok"})
          /\ ret' = IF r.outcome = "ok"
                    THEN [kind |-> "text", text |-> r.text, handle |-> NoLlm]
                    ELSE [kind |-> r.outcome, text |-> <<>>, handle |-> NoLlm]
    /\ UNCHANGED <<clientVars, concVars>>

\* chat(message, system_message)
Chat(message, system_message, net) ==
    DoCall("chat", message, <<>>, system_message, net)

\* chat_with_template(template, variables, system_message)
ChatWithTemplate(template, variables, system_message, net) ==
    DoCall("chat_with_template", template, variables, system_message, net)

\* A valid mapping, and the state right after AzureOpenAIClient(ValidSecrets).
ValidSecrets ==
    [k \in AllKeys |-> IF k \in RequiredSet THEN <<"v">> ELSE Absent]

InitReady ==
    /\ phase = "ready"
    /\ callerDict = ValidSecrets
    /\ ownDict = NoDict
    /\ secretsRef = "caller"
    /\ given = [via |-> "dict", input |-> ValidSecrets]
    /\ validated = ValidSecrets
    /\ mutations = 0
    /\ credential = Construct(ValidSecrets).credential
    /\ llm = Construct(ValidSecrets).llm
    /\ ctorError = NoError
    /\ credState = [current |-> 0, valid |-> FALSE]
    /\ lastToken = 0
    /\ call = NoCall
    /\ prevFailed = FALSE
    /\ ret = NoRet
    /\ thr = [c \in Callers |-> NoThread]
    /\ lastWriter = 0

\* ---------------------------------------------------------- specifications
\* Construction: every mapping and every environment, then operations on the
\* client while the caller may change the mapping it passed in.
NetOk == Net(TRUE, TRUE, <<" ", "H", "\n">>)

Next ==
    \/ /\ phase = "new"
       /\ \E secrets \in SecretsDomain : CreateClientFromDict(secrets)
    \/ /\ phase = "new"
       /\ \E env \in EnvDomain : CreateClientFromEnv(env)
    \/ \E k \in AllKeys, v \in {Absent, <<>>, <<"w">>} : CallerChangesMapping(k, v)
    \/ GetLangchain
    \/ Chat(<<"H">>, None, NetOk) /\ UNCHANGED pending
    \/ ChatWithTemplate(<<"{", "n", "}">>, [x \in {<<"n">>} |-> <<"A">>], <<"S">>, NetOk)
           /\ UNCHANGED pending

Spec == Init /\ [][Next]_vars

\* Calls: any sequence of calls on one constructed client, with failures of
\* the identity provider and of the endpoint, and tokens that expire.
InitCalls == InitReady /\ pending = NoPending

NextCalls ==
    \/ GetLangchain
    \/ TokenExpires
    \/ \E m \in TemplatesFew, sm \in SysFew, net \in NetFew :
           Chat(m, sm, net) /\ UNCHANGED pending
    \/ \E t \in TemplatesFew, v \in VarMapsFew, sm \in SysFew, net \in NetFew :
           ChatWithTemplate(t, v, sm, net) /\ UNCHANGED pending

SpecCalls == InitCalls /\ [][NextCalls]_vars

\* Request shaping: one call with every template, variables mapping and system
\* message within the bounds, and one call with every completion body.
Pending(op, text, variables, system_message, net) ==
    [op |-> op, text |-> text, variables |-> variables,
     system_message |-> system_message, net |-> net]

PendingDomain ==
    {Pending("chat", m, <<>>, sm, NetOk) : m \in Templates, sm \in SysDomain}
    \cup {Pending("chat_with_template", t[1], t[2], sm, NetOk) :
             t \in Templates \X VarMaps, sm \in SysDomain}
    \cup {Pending(t[1], t[2], t[3], None, net) :
             t \in {<<"chat", <<"H">>, <<>> >>,
                    <<"chat_with_template", <<"{", "n", "}">>,
                      [x \in {<<"n">>} |-> <<"A">>]>>},
             net \in NetAll}

InitShape == InitReady /\ pending \in PendingDomain

NextShape ==
    \/ /\ pending.op = "chat"
       /\ Chat(pending.text, pending.system_message, pending.net)
       /\ pending' = NoPending
    \/ /\ pending.op = "chat_with_template"
       /\ ChatWithTemplate(pending.text, pending.variables, pending.system_message,
                           pending.net)
       /\ pending' = NoPending

SpecShape == InitShape /\ [][NextShape]_vars

\* ------------------------------------------------------ simultaneous calls
\* Several callers inside chat / chat_with_template of one client at once. Each
\* caller runs the method's statements in order; the statements of different
\* callers interleave. messages, prompt and response are locals of the call.

\* The message list a caller's chain is built from, were it kept on the client
\* instead of in a local.
MessagesShared(c) == thr[lastWriter].messages

\* prompt = ChatPromptTemplate.from_messages(messages): the caller's own list.
MessagesOf(c) == thr[c].messages

\* messages = [] ... messages.append(...): the call starts and builds its list.
Begin(c, op, text, variables, system_message) ==
    /\ thr[c].pc \in {"idle", "done"}
    /\ thr' = [thr EXCEPT ![c] =
                 [NoThread EXCEPT !.pc = "built", !.op = op, !.text = text,
                                  !.variables = variables,
                                  !.system_message = system_message,
                                  !.messages = BuildMessages(text, system_message)]]
    /\ lastWriter' = c
    /\ UNCHANGED <<clientVars, callVars, pending>>

\* prompt | self.llm and the prompt's part of chain.invoke(variables)
Format(c) ==
    /\ thr[c].pc = "built"
    /\ LET p == FormatPrompt(MessagesOf(c), thr[c].variables) IN
       thr' = [thr EXCEPT ![c] =
                 IF p.outcome = "ok"
                 THEN [@ EXCEPT !.pc = "formatted", !.prompt = p.messages]
                 ELSE [@ EXCEPT !.pc = "done", !.outcome = p.outcome]]
    /\ UNCHANGED <<clientVars, callVars, pending, lastWriter>>

\* The model's part of chain.invoke: a token from the provider, then the request.
Send(c, authOk) ==
    /\ thr[c].pc = "formatted"
    /\ LET t == TokenProvider(credState, authOk) IN
       /\ credState' = t.cs
       /\ lastToken' = IF t.ok THEN t.token ELSE lastToken
       /\ thr' = [thr EXCEPT ![c] =
                    IF t.ok
                    THEN [@ EXCEPT !.pc = "sent",
                                   !.sent = <<MakeRequest(llm, thr[c].prompt, t.token)>>]
                    ELSE [@ EXCEPT !.pc = "done", !.outcome = "AuthError"]]
    /\ UNCHANGED <<clientVars, call, prevFailed, ret, pending, lastWriter>>

\* The endpoint answers the caller's request (or the request fails), and the
\* call returns response.content.strip().
Receive(c, transportOk, body) ==
    /\ thr[c].pc = "sent"
    /\ thr' = [thr EXCEPT ![c] =
                 IF transportOk
                 THEN [@ EXCEPT !.pc = "done", !.outcome = "ok",
                                !.reply = <<[to |-> thr[c].sent[1], body |-> body]>>,
                                !.text_out = Strip(body)]
                 ELSE [@ EXCEPT !.pc = "done", !.outcome = "TransportError"]]
    /\ UNCHANGED <<clientVars, callVars, pending, lastWriter>>

InitConc == InitReady /\ pending = NoPending

ConcBodies == {<<" ", "H">>, <<"n", "\n">>}

NextConc ==
    \E c \in Callers :
        \/ \E sm \in SysFew : Begin(c, "chat", <<"H">>, <<>>, sm)
        \/ \E v \in VarMapsFew :
               Begin(c, "chat_with_template", <<"{", "n", "}">>, v, None)
        \/ Format(c)
        \/ \E authOk \in BOOLEAN : Send(c, authOk)
        \/ \E ok \in BOOLEAN, body \in ConcBodies :
               /\ ok \/ body = <<" ", "H">>
               /\ Receive(c, ok, body)

SpecConc == InitConc /\ [][NextConc]_vars

\* ================================================================== claims
\* The value the constructor's input gives key k: the mapping's entry, or the
\* environment variable of that key (Absent: no entry / not set).
InputValue(k) ==
    IF given.via = "dict" THEN given.input[k] ELSE given.input[EnvName(k)]
InputMissing(k) == InputValue(k) \in {Absent, None, <<>>}
Elements(seq) == {seq[i] : i \in 1..Len(seq)}

\* C1: construction succeeds exactly when each of the four required keys has a
\* non-empty value; otherwise it fails with one ValueError that names exactly
\* the keys that are absent or empty, each once, and neither the credential nor
\* the chat-completion client is built.
C1_ConstructionValidates ==
    given.via # "none" =>
        LET missing == {k \in RequiredSet : InputMissing(k)} IN
        /\ (phase = "ready") <=> (missing = {})
        /\ (phase = "failed") <=> (missing # {})
        /\ phase = "ready" =>
              ctorError = NoError /\ credential.built /\ llm.built
        /\ phase = "failed" =>
              /\ ctorError.type = "ValueError"
              /\ Elements(ctorError.missing) = missing
              /\ Len(ctorError.missing) = Cardinality(missing)
              /\ ~credential.built
              /\ ~llm.built

\* A construction that failed on three missing keys, one absent, one None and
\* one empty among them.
C1_Witness ==
    /\ phase = "failed"
    /\ Len(ctorError.missing) = 3
    /\ given.via = "dict"
    /\ given.input["azure_tenant_id"] = Absent
    /\ given.input["azure_client_id"] = None
    /\ given.input["azure_endpoint"] = <<>>

\* C5: the chat-completion client is bound to the deployment name and the API
\* version that were supplied (as given, even when empty), and to "gpt-4" and
\* "2024-02-15-preview" when they were not supplied.
C5_Defaults ==
    phase = "ready" =>
        /\ llm.azure_deployment =
              IF InputValue("azure_deployment_name") = Absent
              THEN <<"gpt-4">> ELSE InputValue("azure_deployment_name")
        /\ llm.api_version =
              IF InputValue("azure_api_version") = Absent
              THEN <<"2024-02-15-preview">> ELSE InputValue("azure_api_version")

\* A client built from the environment with no deployment name set and an
\* empty API version set.
C5_Witness ==
    /\ phase = "ready"
    /\ given.via = "env"
    /\ InputValue("azure_deployment_name") = Absent
    /\ InputValue("azure_api_version") = <<>>
    /\ llm.azure_deployment = <<"gpt-4">>

\* C8: after a successful construction the configuration the client holds
\* (self.secrets) equals the configuration that was validated.
C8_ConfigurationImmutable ==
    phase = "ready" => SelfSecrets = validated

\* ------------------------------------------- what a claim expects to be sent
Braces == {"{", "}"}
Present(system_message) == system_message # None /\ system_message # <<>>
SystemPart(system_message) ==
    IF Present(system_message)
    THEN <<[role |-> "system", content |-> system_message]>>
    ELSE <<>>
ExpectedMessages(system_message, content) ==
    SystemPart(system_message) \o <<[role |-> "user", content |-> content]>>

\* Position i of t opens a {name} placeholder that closes at j: t[i] is the last
\* of an odd run of '{', t[j] is '}', and no brace lies between them.
RECURSIVE OpenRun(_, _)
OpenRun(t, i) == IF i >= 1 /\ t[i] = "{" THEN 1 + OpenRun(t, i - 1) ELSE 0
IsPlaceholder(t, i, j) ==
    /\ 1 <= i /\ i < j /\ j <= Len(t)
    /\ t[i] = "{" /\ t[j] = "}"
    /\ \A k \in (i + 1)..(j - 1) : t[k] \notin Braces
    /\ OpenRun(t, i) % 2 = 1
PlaceholderNames(t) ==
    {SubSeq(t, i + 1, j - 1) : <<i, j>> \in
        {p \in (1..Len(t)) \X (1..Len(t)) : IsPlaceholder(t, p[1], p[2])}}

\* The template with each placeholder replaced by its value and every other
\* character kept as it is written.
RECURSIVE SubstFrom(_, _, _)
SubstFrom(t, variables, i) ==
    IF i > Len(t) THEN <<>>
    ELSE IF \E j \in 1..Len(t) : IsPlaceholder(t, i, j)
    THEN LET j == CHOOSE j \in 1..Len(t) : IsPlaceholder(t, i, j)
         IN  variables[SubSeq(t, i + 1, j - 1)] \o SubstFrom(t, variables, j + 1)
    ELSE <<t[i]>> \o SubstFrom(t, variables, i + 1)
Substituted(t, variables) == SubstFrom(t, variables, 1)

\* The renderings of a well-formed format string, read from its end: its last
\* segment is a plain character, a doubled brace standing for one brace, or a
\* {name} placeholder standing for the value of name. The set is empty when t
\* is not well formed or names a variable without a value.
RECURSIVE Renderings(_, _)
Renderings(t, variables) ==
    IF t = <<>> THEN {<<>>}
    ELSE LET n == Len(t) IN
         (IF t[n] \notin Braces
          THEN {r \o <<t[n]>> : r \in Renderings(SubSeq(t, 1, n - 1), variables)}
          ELSE {})
         \cup
         (IF n >= 2 /\ t[n] \in Braces /\ t[n - 1] = t[n]
          THEN {r \o <<t[n]>> : r \in Renderings(SubSeq(t, 1, n - 2), variables)}
          ELSE {})
         \cup
         UNION {{r \o variables[SubSeq(t, k + 1, n - 1)] :
                    r \in Renderings(SubSeq(t, 1, k - 1), variables)} :
                k \in {k \in 1..(n - 1) :
                         /\ t[k] = "{" /\ t[n] = "}"
                         /\ \A x \in (k + 1)..(n - 1) : t[x] \notin Braces
                         /\ SubSeq(t, k + 1, n - 1) \in DOMAIN variables}}

\* C2: chat sends one request whose messages are the system message if one is
\* present, then one user message whose content is the message string verbatim.
C2_ChatVerbatim ==
    call.op = "chat" =>
        /\ Len(call.sent) = 1
        /\ call.sent[1].messages = ExpectedMessages(call.system_message, call.text)

\* C3: chat_with_template with a template holding a placeholder whose name has
\* no entry in the variables mapping raises a template / variable error
\* (KeyError, or ValueError when the template is malformed as well) and sends
\* no request.
C3_MissingVariableFails ==
    ( /\ call.op = "chat_with_template"
      /\ PlaceholderNames(call.text) \ DOMAIN call.variables # {} ) =>
        /\ call.outcome \in {"KeyError", "ValueError"}
        /\ ret.kind = call.outcome
        /\ call.sent = <<>>
        /\ call.providerCalls = 0

\* "H{n}" with no variables: KeyError, nothing sent.
C3_Witness ==
    /\ call.op = "chat_with_template"
    /\ call.text = <<"H", "{", "n", "}">>
    /\ call.variables = <<>>
    /\ call.outcome = "KeyError"
    /\ call.sent = <<>>

\* C4 as stated: when every placeholder has an entry, chat_with_template sends
\* one request whose user content is the template with every placeholder
\* replaced by its value (and nothing else changed), after the system message
\* if one is present.
C4_TemplateSubstituted ==
    ( /\ call.op = "chat_with_template"
      /\ PlaceholderNames(call.text) \subseteq DOMAIN call.variables ) =>
        /\ Len(call.sent) = 1
        /\ call.sent[1].messages =
              ExpectedMessages(call.system_message,
                               Substituted(call.text, call.variables))

\* C4 amended: when the template is a well-formed format string (every brace
\* outside a placeholder is doubled) and every placeholder has an entry,
\* chat_with_template sends one request whose user content is the template
\* with every placeholder replaced by its value and every doubled brace by one
\* brace, after the system message if one is present.
C4_WellFormedTemplateRendered ==
    ( /\ call.op = "chat_with_template"
      /\ Renderings(call.text, call.variables) # {} ) =>
        /\ Len(call.sent) = 1
        /\ \E r \in Renderings(call.text, call.variables) :
              call.sent[1].messages = ExpectedMessages(call.system_message, r)
        /\ Cardinality(Renderings(call.text, call.variables)) = 1

\* "H{n}" with n = "A" and system message "S": system "S", then user "HA".
C4_Witness ==
    /\ call.op = "chat_with_template"
    /\ call.text = <<"H", "{", "n", "}">>
    /\ call.system_message = <<"S">>
    /\ <<"n">> \in DOMAIN call.variables
    /\ call.variables[<<"n">>] = <<"A">>
    /\ Len(call.sent) = 1
    /\ call.sent[1].messages =
          <<[role |-> "system", content |-> <<"S">>],
            [role |-> "user", content |-> <<"H", "A">>]>>

\* C7: the text a successful call returns is the completion body without its
\* leading and trailing whitespace: the body is whitespace, the text,
\* whitespace, and the text neither starts nor ends with whitespace.
IsSpace(c) == c \in {" ", "\t", "\n", "\r", "\f"}
IsStripOf(r, b) ==
    /\ r = <<>> \/ (~IsSpace(r[1]) /\ ~IsSpace(r[Len(r)]))
    /\ \E i \in 0..Len(b) :
          /\ i + Len(r) <= Len(b)
          /\ \A k \in 1..i : IsSpace(b[k])
          /\ \A k \in 1..Len(r) : b[i + k] = r[k]
          /\ \A k \in (i + Len(r) + 1)..Len(b) : IsSpace(b[k])
C7_ReturnsStrippedBody ==
    call.outcome = "ok" => ret.kind = "text" /\ IsStripOf(ret.text, call.body)

\* The body " H\n" returned as "H".
C7_Witness ==
    /\ call.outcome = "ok"
    /\ call.body = <<" ", "H", "\n">>
    /\ ret.text = <<"H">>

\* The request a client built from ValidSecrets sends for a call, whatever
\* happened before: determined by the call's arguments and the construction.
FreshMessages(text, variables, system_message) ==
    {ExpectedMessages(system_message, r) : r \in Renderings(text, variables)}
BoundAtConstruction(request) ==
    /\ request.azure_endpoint = <<"v">>
    /\ request.azure_deployment = <<"gpt-4">>
    /\ request.api_version = <<"2024-02-15-preview">>
    /\ request.temperature = "0.1"
    /\ request.max_tokens = 4000

\* C6: no step changes the client's configuration, credential or chat client,
\* and a call made after a call that raised sends the request its arguments
\* determine: nothing of the failed call is in it.
C6_CallsIndependent ==
    [][ /\ SelfSecrets' = SelfSecrets
        /\ secretsRef' = secretsRef
        /\ credential' = credential
        /\ llm' = llm
        /\ prevFailed' =>
              /\ Len(call'.sent) <= 1
              /\ \A i \in 1..Len(call'.sent) :
                    /\ call'.sent[i].messages \in
                          FreshMessages(call'.text, call'.variables,
                                        call'.system_message)
                    /\ BoundAtConstruction(call'.sent[i])
              /\ (call'.sent = <<>>) <=>
                    \/ call'.outcome \in {"KeyError", "ValueError", "AuthError"}
                    \/ call'.op = "none" ]_vars

\* A call that succeeded right after a call that raised.
C6_Witness ==
    /\ prevFailed
    /\ call.outcome = "ok"
    /\ Len(call.sent) = 1
    /\ ret.kind = "text"

\* C9: every call that reaches the model invokes the token provider once, the
\* provider fetches from the credential with the fixed scope, and the request
\* carries the token of that fetch: the credential's current token, never one
\* kept from an earlier request.
C9_TokenFetchedPerRequest ==
    /\ call.sent # <<>> => call.providerCalls = 1
    /\ call.providerCalls = 1 =>
          call.fetches = <<"https://cognitiveservices.azure.com/.default">>
    /\ call.sent # <<>> =>
          /\ call.sent[1].token = call.token
          /\ call.token = credState.current
          /\ call.token # 0

\* A request sent with the credential's second token, after the first expired.
C9_Witness ==
    /\ call.sent # <<>>
    /\ call.sent[1].token = 2
    /\ lastToken = 2

\* C10: under every interleaving of simultaneous calls, each caller's request
\* is the one its own arguments determine, the reply it reads is the reply to
\* its own request, and it returns that reply's stripped body; a call raises
\* before sending exactly when its own prompt does not format.
C10_CallersIsolated ==
    \A c \in Callers :
        LET own == FormatPrompt(BuildMessages(thr[c].text, thr[c].system_message),
                                thr[c].variables)
        IN  /\ thr[c].pc \in {"formatted", "sent"} => own.outcome = "ok"
            /\ thr[c].pc = "formatted" => thr[c].prompt = own.messages
            /\ thr[c].sent # <<>> =>
                  /\ own.outcome = "ok"
                  /\ thr[c].sent[1].messages = own.messages
                  /\ thr[c].sent[1].messages \in
                        FreshMessages(thr[c].text, thr[c].variables,
                                      thr[c].system_message)
            /\ (thr[c].pc = "done" /\ thr[c].outcome \in {"KeyError", "ValueError"}) =>
                  thr[c].outcome = own.outcome
            /\ (thr[c].pc = "done" /\ thr[c].outcome = "ok") =>
                  /\ Len(thr[c].reply) = 1
                  /\ thr[c].reply[1].to = thr[c].sent[1]
                  /\ thr[c].text_out = Strip(thr[c].reply[1].body)

\* Caller 1 has returned from chat while caller 2, which began
\* chat_with_template after caller 1 began and before it sent, is in flight.
C10_Witness ==
    /\ thr[1].pc = "done" /\ thr[1].outcome = "ok" /\ thr[1].op = "chat"
    /\ thr[2].pc = "sent" /\ thr[2].op = "chat_with_template"
    /\ lastWriter = 2
    /\ thr[1].sent[1].messages # thr[2].sent[1].messages

=============================================================================
